---------------------------- MODULE Spec2Model ----------------------------
(***************************************************************************)
(* Deterministic hash-based A/B split (src/01_hash_split/hash_split.py).   *)
(*                                                                         *)
(* ABSplitter._hash_to_float turns salt + "_" + str(user_id) into a float  *)
(* and ABSplitter.get_group walks the running sum of the weights.  Both    *)
(* are decided by IEEE-754 double arithmetic, so the model carries every   *)
(* float exactly: a float is a sign and a magnitude, the magnitude a       *)
(* big-endian sequence of bytes counting units of 2^-64 (one integer byte  *)
(* followed by the 8 fraction bytes the digest prefix fills).  Every       *)
(* double of magnitude below 256 that is 0 or at least 2^-11 is such a     *)
(* value; sums and quotients are rounded to 53 significant bits, ties to   *)
(* even, as the hardware does.                                             *)
(*                                                                         *)
(* hashlib.sha256 is a library function: it is modelled as a fixed but     *)
(* arbitrary function (the variable sha, chosen once and never changed)    *)
(* from the hashed string to the first 8 bytes of its digest.              *)
(***************************************************************************)
EXTENDS Integers, Sequences, FiniteSets, TLC

(***************************************************************************)
(* Exact arithmetic on magnitudes (big-endian base-256 digit sequences).   *)
(***************************************************************************)

\* hash_bytes[:8]: the digest prefix is 8 bytes, 64 bits.
PrefixBytes == 8

\* A Python float is an IEEE-754 double: 53 significant bits.
MantissaBits == 53

\* One integer byte in front of the PrefixBytes fraction bytes.
MagLen == PrefixBytes + 1

Byte == 0..255

ZeroMag == [i \in 1..MagLen |-> 0]

OneMag == [i \in 1..MagLen |-> IF i = 1 THEN 1 ELSE 0]

RECURSIVE MagLessFrom(_, _, _)
MagLessFrom(a, b, i) ==
    IF i > Len(a) THEN FALSE
    ELSE IF a[i] # b[i] THEN a[i] < b[i]
    ELSE MagLessFrom(a, b, i + 1)

MagLess(a, b) == MagLessFrom(a, b, 1)

RECURSIVE AddDigits(_, _, _, _)
AddDigits(a, b, i, carry) ==
    IF i = 0 THEN <<>>
    ELSE LET s == a[i] + b[i] + carry
         IN  Append(AddDigits(a, b, i - 1, s \div 256), s % 256)

MagAdd(a, b) == AddDigits(a, b, Len(a), 0)

RECURSIVE SubDigits(_, _, _, _)
SubDigits(a, b, i, borrow) ==
    IF i = 0 THEN <<>>
    ELSE LET d == a[i] - b[i] - borrow
         IN  Append(SubDigits(a, b, i - 1, IF d < 0 THEN 1 ELSE 0),
                    IF d < 0 THEN d + 256 ELSE d)

\* a - b for a >= b.
MagSub(a, b) == SubDigits(a, b, Len(a), 0)

RECURSIVE BitLen8(_)
BitLen8(d) == IF d = 0 THEN 0 ELSE 1 + BitLen8(d \div 2)

RECURSIVE BitLenFrom(_, _)
BitLenFrom(m, i) ==
    IF i > Len(m) THEN 0
    ELSE IF m[i] # 0 THEN (Len(m) - i) * 8 + BitLen8(m[i])
    ELSE BitLenFrom(m, i + 1)

\* Number of significant bits of the magnitude (0 for zero).
BitLen(m) == BitLenFrom(m, 1)

(***************************************************************************)
(* Round a magnitude to MantissaBits significant bits, ties to even.       *)
(* sticky says that the exact value lies strictly above m (a division's    *)
(* remainder).  At most 72 - 53 = 19 bits are dropped, all of them in the  *)
(* last three bytes.                                                       *)
(***************************************************************************)
RoundMag(m, sticky) ==
    LET k == BitLen(m) - MantissaBits
    IN  IF k <= 0 THEN m
        ELSE LET n      == Len(m)
                 low    == m[n - 2] * 65536 + m[n - 1] * 256 + m[n]
                 q      == low \div (2 ^ k)
                 r      == low % (2 ^ k)
                 half   == 2 ^ (k - 1)
                 up     == \/ r > half
                           \/ r = half /\ sticky
                           \/ r = half /\ q % 2 = 1
                 newlow == (q + (IF up THEN 1 ELSE 0)) * (2 ^ k)
                 high   == SubSeq(m, 1, n - 3)
                 hicar  == IF newlow >= 16777216
                              THEN MagAdd(high, [i \in 1..(n - 3) |->
                                                    IF i = n - 3 THEN 1 ELSE 0])
                              ELSE high
                 nl     == newlow % 16777216
             IN  hicar \o <<nl \div 65536, (nl \div 256) % 256, nl % 256>>

(***************************************************************************)
(* Floats: [neg |-> BOOLEAN, mag |-> magnitude].  Zero is never negative.  *)
(***************************************************************************)
Flt(neg, mag) == [neg |-> neg /\ mag # ZeroMag, mag |-> mag]

FZero == Flt(FALSE, ZeroMag)

FOne == Flt(FALSE, OneMag)

FNeg(x) == Flt(~x.neg, x.mag)

FAbs(x) == Flt(FALSE, x.mag)

\* x + y, correctly rounded (the exact sum is a magnitude; it is rounded once).
FAdd(x, y) ==
    IF x.neg = y.neg THEN Flt(x.neg, RoundMag(MagAdd(x.mag, y.mag), FALSE))
    ELSE IF MagLess(x.mag, y.mag)
         THEN Flt(y.neg, RoundMag(MagSub(y.mag, x.mag), FALSE))
         ELSE Flt(x.neg, RoundMag(MagSub(x.mag, y.mag), FALSE))

FSub(x, y) == FAdd(x, FNeg(y))

FLess(x, y) ==
    IF x.neg /\ ~y.neg THEN TRUE
    ELSE IF ~x.neg /\ y.neg THEN FALSE
    ELSE IF x.neg THEN MagLess(y.mag, x.mag)
    ELSE MagLess(x.mag, y.mag)

FLessEq(x, y) == ~FLess(y, x)

\* Remainder of the first i digits of m divided by n (schoolbook division).
RECURSIVE DivRem(_, _, _)
DivRem(m, n, i) == IF i = 0 THEN 0 ELSE (DivRem(m, n, i - 1) * 256 + m[i]) % n

DivMag(m, n) == [i \in 1..Len(m) |-> (DivRem(m, n, i - 1) * 256 + m[i]) \div n]

\* 1/n for an integer n >= 1: Python's int / int, correctly rounded.
FRecip(n) == Flt(FALSE, RoundMag(DivMag(OneMag, n), DivRem(OneMag, n, MagLen) # 0))

(***************************************************************************)
(* Float literals used as inputs (the doubles Python reads the decimal     *)
(* literals as).                                                           *)
(***************************************************************************)
Pos(m) == Flt(FALSE, m)

f0_25 == Pos(<<0, 64, 0, 0, 0, 0, 0, 0, 0>>)

f0_3 == Pos(<<0, 76, 204, 204, 204, 204, 204, 204, 0>>)

f0_5 == Pos(<<0, 128, 0, 0, 0, 0, 0, 0, 0>>)

f0_99999 == Pos(<<0, 255, 255, 88, 58, 83, 184, 232, 0>>)

f1_5 == Pos(<<1, 128, 0, 0, 0, 0, 0, 0, 0>>)

fThird == Pos(<<0, 85, 85, 85, 85, 85, 85, 84, 0>>)

(***************************************************************************)
(* Optional arguments: None is the empty tuple, a given value x is <<x>>.  *)
(***************************************************************************)
None == <<>>

Some(x) == <<x>>

Min(a, b) == IF a < b THEN a ELSE b

(***************************************************************************)
(* The program state.                                                      *)
(***************************************************************************)
VARIABLES
    experiment, \* the salt the caller constructed the splitter with
    salt,       \* ABSplitter.salt of that splitter
    sha,        \* hashlib.sha256: hashed string -> first 8 digest bytes
    ret,        \* the last get_group call: its arguments and what it did
    memo,       \* some earlier get_group call, kept for comparison
    df,         \* the caller's DataFrame: a sequence of rows
    out         \* the last assign_groups / quick_split call

vars == <<experiment, salt, sha, ret, memo, df, out>>

(***************************************************************************)
(* ABSplitter._hash_to_float                                               *)
(***************************************************************************)

\* f"{self.salt}_{value}"
Combined(self_salt, value) == self_salt \o "_" \o ToString(value)

\* int.from_bytes(hash_bytes[:8], 'big') / (2**64): the prefix is the
\* fraction, and int / int is correctly rounded to a double.
from_bytes_div(prefix) == Flt(FALSE, RoundMag(<<0>> \o prefix, FALSE))

_hash_to_float(self_salt, digest, value) ==
    from_bytes_div(digest[Combined(self_salt, value)])

(***************************************************************************)
(* ABSplitter.get_group                                                    *)
(***************************************************************************)

\* groups = ['control', 'test']
DefaultGroups == <<"control", "test">>

\* The default weights as the fixed list [0.5, 0.5].
DefaultWeights_half(groups) == <<f0_5, f0_5>>

\* weights = [1/len(groups)] * len(groups)   (len(groups) >= 1)
DefaultWeights(groups) == [i \in 1..Len(groups) |-> FRecip(Len(groups))]

\* sum(weights): 0 + w1 + w2 + ... from the left, each addition rounded.  (A
\* compensated sum, as newer interpreters compute it, differs by at most a few
\* units in the last place: far less than the tolerance the sum is tested
\* with, and not at all on the weight lists used here as inputs whose sums
\* are exact.)
RECURSIVE SumTo(_, _)
SumTo(weights, i) ==
    IF i = 0 THEN FZero ELSE FAdd(SumTo(weights, i - 1), weights[i])

sum(weights) == SumTo(weights, Len(weights))

\* numpy's defaults: atol + rtol * abs(1.0) = 1e-08 + 1e-05 * 1.0, a double
\* between this magnitude and the next one.
IsCloseTol == Pos(<<0, 0, 0, 167, 240, 159, 100, 223, 168>>)

\* np.isclose(a, 1.0): abs(a - 1.0) <= atol + rtol * abs(1.0)
isclose_one(a) == FLessEq(FAbs(FSub(a, FOne)), IsCloseTol)

\* The loop with "bucket <= cumulative" for "bucket < cumulative".
RECURSIVE Scan_closed(_, _, _, _, _)
Scan_closed(bucket, groups, weights, i, cumulative) ==
    IF i > Min(Len(groups), Len(weights)) THEN 0
    ELSE LET c == FAdd(cumulative, weights[i])
         IN  IF FLessEq(bucket, c) THEN i
             ELSE Scan_closed(bucket, groups, weights, i + 1, c)

\* The loop over zip(groups, weights) from pair i on: the index of the group
\* returned inside the loop, 0 when the loop runs out.
RECURSIVE Scan(_, _, _, _, _)
Scan(bucket, groups, weights, i, cumulative) ==
    IF i > Min(Len(groups), Len(weights)) THEN 0
    ELSE LET c == FAdd(cumulative, weights[i])
         IN  IF FLess(bucket, c) THEN i
             ELSE Scan(bucket, groups, weights, i + 1, c)

Raise(error, sample) == [kind |-> "raise", value |-> error, sample |-> sample]

Return(group, sample) == [kind |-> "return", value |-> group, sample |-> sample]

\* The body with the sample derived before the weights are checked.
RaiseAfter(bucket) == Raise("ValueError", Some(bucket))

Assign_hash_first(self_salt, digest, user_id, groups, weights) ==
    IF ~isclose_one(sum(weights))
    THEN RaiseAfter(_hash_to_float(self_salt, digest, user_id))
    ELSE LET bucket == _hash_to_float(self_salt, digest, user_id)
             i      == Scan(bucket, groups, weights, 1, FZero)
         IN  IF i # 0 THEN Return(groups[i], Some(bucket))
             ELSE IF Len(groups) = 0 THEN Raise("IndexError", Some(bucket))
             ELSE Return(groups[Len(groups)], Some(bucket))

\* The body after the defaults are filled in (lines 58-68).
Assign(self_salt, digest, user_id, groups, weights) ==
    IF ~isclose_one(sum(weights)) THEN Raise("ValueError", None)
    ELSE LET bucket == _hash_to_float(self_salt, digest, user_id)
             i      == Scan(bucket, groups, weights, 1, FZero)
         IN  IF i # 0 THEN Return(groups[i], Some(bucket))
             ELSE IF Len(groups) = 0 THEN Raise("IndexError", Some(bucket))
             ELSE Return(groups[Len(groups)], Some(bucket))

\* What a call does: [kind, value, sample].  groups and weights are optional.
GetGroupCall(self_salt, digest, user_id, groups, weights) ==
    LET g == IF groups = None THEN DefaultGroups ELSE groups[1]
    IN  IF weights = None /\ Len(g) = 0 THEN Raise("ZeroDivisionError", None)
        ELSE Assign(self_salt, digest, user_id, g,
                    IF weights = None THEN DefaultWeights(g) ELSE weights[1])

CallRecord(constructed, user_id, groups, weights, did) ==
    [salt |-> constructed, user_id |-> user_id, groups |-> groups,
     weights |-> weights, kind |-> did.kind, value |-> did.value,
     sample |-> did.sample]

\* The arguments of a recorded call.
InputOf(call) == <<call[1].salt, call[1].user_id, call[1].groups, call[1].weights>>

\* get_group with a cache of the last call's outcome, keyed by user_id alone.
get_group_cached(user_id, groups, weights) ==
    /\ ret' = Some(CallRecord(experiment, user_id, groups, weights,
                    IF ret # None /\ ret[1].user_id = user_id
                    THEN ret[1]
                    ELSE GetGroupCall(salt, sha, user_id, groups, weights)))
    /\ UNCHANGED <<experiment, salt, sha, df, out>>

get_group(user_id, groups, weights) ==
    /\ ret' = Some(CallRecord(experiment, user_id, groups, weights,
                    GetGroupCall(salt, sha, user_id, groups, weights)))
    /\ UNCHANGED <<experiment, salt, sha, df, out>>

\* ABSplitter(salt=s): the caller goes on with a splitter of another salt.
ABSplitter(s) ==
    /\ experiment' = s
    /\ salt' = s
    /\ UNCHANGED <<sha, ret, memo, df, out>>

(***************************************************************************)
(* ABSplitter.assign_groups and quick_split                                *)
(***************************************************************************)

\* Without the copy: the column is written to the caller's frame.
CallerFrameAfter_alias(frame, working) == working

\* df = df.copy(): the caller's frame is another object than the one the
\* 'group' column is written to, so the caller's frame stays as it was.
CallerFrameAfter(frame, working) == frame

\* row with the added column: df['group'] = ...
WithGroup(row, group) ==
    [c \in DOMAIN row \cup {"group"} |-> IF c = "group" THEN group ELSE row[c]]

\* df[user_col].apply(lambda uid: self.get_group(uid, groups, weights)):
\* one call per row, in row order.
Applied(self_salt, digest, frame, user_col, groups, weights) ==
    [i \in 1..Len(frame) |->
        GetGroupCall(self_salt, digest, frame[i][user_col], groups, weights)]

\* The rows of the returned frame.
Assigned(frame, calls) ==
    [i \in 1..Len(frame) |-> WithGroup(frame[i], calls[i].value)]

\* What came of the rows' calls: the first exception one of them raised,
\* else the frame with the 'group' column.
Collected(frame, calls, failed) ==
    IF failed # {}
    THEN [kind |-> "raise",
          value |-> calls[CHOOSE i \in failed : \A j \in failed : i <= j].value,
          frame |-> frame]
    ELSE [kind |-> "return", value |-> Assigned(frame, calls),
          frame |-> Assigned(frame, calls)]

Failed(calls) == {i \in DOMAIN calls : calls[i].kind = "raise"}

CollectedOf(frame, calls) == Collected(frame, calls, Failed(calls))

\* What assign_groups does on a frame.
AssignGroupsCall(self_salt, digest, frame, user_col, groups, weights) ==
    CollectedOf(frame, Applied(self_salt, digest, frame, user_col, groups, weights))

\* The caller's view of a bulk call: the frame it passed stays its frame, and
\* out holds the arguments and what the call returned or raised.
BulkStep(op, self_salt, user_col, groups, weights, did) ==
    /\ out' = Some([op |-> op, salt |-> self_salt, user_col |-> user_col,
                    groups |-> groups, weights |-> weights, input |-> df,
                    kind |-> did.kind, value |-> did.value])
    /\ df' = CallerFrameAfter(df, did.frame)
    /\ UNCHANGED <<experiment, salt, sha, ret, memo>>

assign_groups(user_col, groups, weights) ==
    BulkStep("assign_groups", experiment, user_col, groups, weights,
             AssignGroupsCall(salt, sha, df, user_col, groups, weights))

\* weights=[1-test_pct, test_pct]
SplitWeights(test_pct) == <<FSub(FOne, test_pct), test_pct>>

\* quick_split builds a splitter of its own from its salt argument.
SplitWith(user_col, s, groups, weights) ==
    BulkStep("quick_split", s, user_col, groups, weights,
             AssignGroupsCall(s, sha, df, user_col, groups, weights))

quick_split(user_col, s, test_pct) ==
    SplitWith(user_col, s, Some(<<"control", "test">>), Some(SplitWeights(test_pct)))

(***************************************************************************)
(* Inputs.                                                                 *)
(***************************************************************************)

\* Longest DataFrame.
MaxRows == 2

Salts == {"exp1", "exp2"}

Ids == {1, 2}

Strings == {Combined(s, i) : s \in Salts, i \in Ids}

Columns == {"user_id"}

\* Digest prefixes: 0, one that rounds up to 0.25, the largest double below
\* 0.5, one that rounds up to 0.5, the double 1/3, SHA-256("exp1_1"),
\* SHA-256("exp1_104735") (sample 0.99999408...), the largest double below 1,
\* the largest prefix that rounds to it, the smallest that rounds to 1.0, and
\* the largest prefix.
EdgePrefixes ==
    { <<0, 0, 0, 0, 0, 0, 0, 0>>,
      <<63, 255, 255, 255, 255, 255, 255, 255>>,
      <<127, 255, 255, 255, 255, 255, 252, 0>>,
      <<127, 255, 255, 255, 255, 255, 255, 255>>,
      <<85, 85, 85, 85, 85, 85, 84, 0>>,
      <<41, 154, 96, 83, 214, 3, 248, 94>>,
      <<255, 255, 156, 183, 237, 46, 97, 17>>,
      <<255, 255, 255, 255, 255, 255, 248, 0>>,
      <<255, 255, 255, 255, 255, 255, 251, 255>>,
      <<255, 255, 255, 255, 255, 255, 252, 0>>,
      <<255, 255, 255, 255, 255, 255, 255, 255>> }

PlainPrefixes ==
    { <<41, 154, 96, 83, 214, 3, 248, 94>>,
      <<127, 255, 255, 255, 255, 255, 255, 255>> }

GroupLists ==
    { <<>>, <<"a">>, <<"control", "test">>, <<"a", "b", "c">>,
      <<"a", "b", "c", "d">> }

WeightLists ==
    { <<>>, <<FOne>>, <<f0_99999>>,
      <<f0_5, f0_5>>, <<f0_3, f0_3>>, <<f0_3, FSub(FOne, f0_3)>>,
      <<f1_5, FNeg(f0_5)>>, <<FNeg(f0_5), f1_5>>,
      <<FOne, FZero>>, <<FZero, FOne>>, <<f0_99999, FZero>>,
      <<f0_5, f0_5, f0_5>>, <<f0_5, FZero, f0_5>>, <<f0_25, f0_25, f0_5>>,
      <<fThird, fThird, fThird>>,
      <<f0_25, f0_25, f0_25, f0_25>> }

Optional(S) == {None} \cup {Some(x) : x \in S}

\* Group specifications of the interleaved calls.
FewSpecs ==
    { <<None, None>>,
      <<Some(<<"a", "b", "c">>), None>>,
      <<Some(<<"control", "test">>), Some(<<f0_3, f0_3>>)>>,
      <<Some(<<"a", "b", "c">>), Some(<<f0_25, f0_25, f0_5>>)>> }

\* Group specifications of the bulk calls.
BulkSpecs ==
    FewSpecs \cup
    { <<Some(<<"control", "test">>), Some(<<f0_3, FSub(FOne, f0_3)>>)>>,
      <<Some(<<"control", "test">>), Some(<<FZero, FOne>>)>>,
      <<None, Some(<<f0_25, f0_25, f0_5>>)>> }

TestPcts == {FZero, f0_25, f0_5, FOne, f1_5, FNeg(f0_5)}

Frames == UNION {[1..n -> [user_id : Ids]] : n \in 0..MaxRows}

(***************************************************************************)
(* Specifications.                                                         *)
(***************************************************************************)
InitWith(tables, frames) ==
    /\ experiment \in Salts
    /\ salt = experiment
    /\ sha \in tables
    /\ ret = None
    /\ memo = None
    /\ df \in frames
    /\ out = None

\* The observer: memo keeps the call it holds or takes the one just made;
\* other tells that a call with other arguments was made after it.
Remember ==
    \/ /\ memo # None
       /\ memo' = Some([call |-> memo[1].call,
                        other |-> memo[1].other \/ InputOf(ret') # InputOf(<<memo[1].call>>)])
    \/ memo' = Some([call |-> ret'[1], other |-> FALSE])

(* Interleaved get_group calls on splitters of several salts. *)
Init == InitWith([Strings -> PlainPrefixes], {<<>>})

Call ==
    /\ \E user_id \in Ids, gw \in FewSpecs : get_group(user_id, gw[1], gw[2])
    /\ Remember

Construct == \E s \in Salts : ABSplitter(s)

Next == Call \/ Construct

Spec == Init /\ [][Next]_vars

(* One get_group call, over every input; a call reads one digest, so the    *)
(* tables that give every string the same prefix cover all it can see.     *)
InitCall == InitWith({[x \in Strings |-> p] : p \in EdgePrefixes}, {<<>>})

NextCall ==
    /\ ret = None
    /\ \E user_id \in Ids, groups \in Optional(GroupLists),
          weights \in Optional(WeightLists) : get_group(user_id, groups, weights)
    /\ UNCHANGED memo

SpecCall == InitCall /\ [][NextCall]_vars

(* One bulk application over a DataFrame. *)
InitBulk == InitWith([Strings -> PlainPrefixes], Frames)

AssignGroups ==
    /\ out = None
    /\ \E user_col \in Columns, gw \in BulkSpecs :
          assign_groups(user_col, gw[1], gw[2])

QuickSplit ==
    /\ out = None
    /\ \E user_col \in Columns, s \in Salts, test_pct \in TestPcts :
          quick_split(user_col, s, test_pct)

NextBulk == AssignGroups \/ QuickSplit

SpecBulk == InitBulk /\ [][NextBulk]_vars

(***************************************************************************)
(* Vocabulary of the properties.                                           *)
(***************************************************************************)

\* The groups and weights a recorded call ran with.
GroupsOf(c) == IF c.groups = None THEN DefaultGroups ELSE c.groups[1]

\* 1/n as a double, written out.
EqualSplit(n) ==
    CASE n = 1 -> FOne [] n = 2 -> f0_5 [] n = 3 -> fThird [] n = 4 -> f0_25

EqualWeights(n) == [i \in 1..n |-> EqualSplit(n)]

\* The sample lies in [0, 1).
InUnit(s) == ~s.neg /\ MagLess(s.mag, OneMag)

\* Cumulative boundary b_i = w_1 + ... + w_i, added in declaration order.
RECURSIVE Boundary(_, _)
Boundary(w, i) == IF i = 0 THEN FZero ELSE FAdd(Boundary(w, i - 1), w[i])

\* Equal lengths, no negative weight, boundaries ending at exactly 1.
ValidSpec(g, w) ==
    /\ Len(g) = Len(w)
    /\ Len(g) >= 1
    /\ \A i \in 1..Len(w) : ~w[i].neg
    /\ Boundary(w, Len(w)) = FOne

\* Weight lists that are far from summing to 1: sums 0, 0.6 and 1.5.
NotSummingToOne == {<<>>, <<f0_3, f0_3>>, <<f0_5, f0_5, f0_5>>}

SameOutcome(c, did) == c.kind = did.kind /\ c.value = did.value

(***************************************************************************)
(* C1  Determinism: two get_group calls with the same salt, identifier,    *)
(* groups and weights give the same outcome (the same label, or the same   *)
(* exception), whatever calls with other arguments or on splitters of      *)
(* other salts were made in between, and no call changes the salt.         *)
(***************************************************************************)
Determinism ==
    /\ salt = experiment
    /\ (memo # None /\ ret # None /\ InputOf(<<memo[1].call>>) = InputOf(ret))
          => SameOutcome(ret[1], memo[1].call)

\* A call repeated after calls with other arguments, returning a label.
DeterminismWitness ==
    /\ memo # None /\ ret # None
    /\ memo[1].other
    /\ InputOf(<<memo[1].call>>) = InputOf(ret)
    /\ ret[1].kind = "return"

(***************************************************************************)
(* C2  Weights that do not sum to 1 (such as [0.3, 0.3]) make get_group    *)
(* raise ValueError, for every salt and identifier, before the sample is   *)
(* derived.                                                                *)
(***************************************************************************)
BadSumRaisesBeforeSample ==
    (ret # None /\ ret[1].weights # None /\ ret[1].weights[1] \in NotSummingToOne)
        => /\ ret[1].kind = "raise"
           /\ ret[1].value = "ValueError"
           /\ ret[1].sample = None

BadSumWitness ==
    /\ ret # None
    /\ ret[1].groups = Some(<<"control", "test">>)
    /\ ret[1].weights = Some(<<f0_3, f0_3>>)
    /\ ret[1].kind = "raise"

(***************************************************************************)
(* C3  (as claimed) A call whose number of weights differs from its number *)
(* of group names raises ValueError.                                       *)
(***************************************************************************)
LengthMismatchRaises ==
    (ret # None /\ ret[1].weights # None
        /\ Len(ret[1].weights[1]) # Len(GroupsOf(ret[1])))
        => ret[1].kind = "raise" /\ ret[1].value = "ValueError"

(***************************************************************************)
(* C4  (as claimed) A call with a negative weight raises ValueError.       *)
(***************************************************************************)
NegativeWeightRaises ==
    (ret # None /\ ret[1].weights # None
        /\ \E i \in 1..Len(ret[1].weights[1]) : ret[1].weights[1][i].neg)
        => ret[1].kind = "raise" /\ ret[1].value = "ValueError"

(***************************************************************************)
(* C5  For a valid specification (equal lengths, no negative weight,       *)
(* boundaries ending at 1) the sample is derived, and a sample s in [0, 1) *)
(* gets the group i with b_(i-1) <= s < b_i: a sample on a boundary goes   *)
(* to the group after it.                                                  *)
(***************************************************************************)
LeftClosedRightOpen ==
    (ret # None /\ ret[1].weights # None
        /\ ValidSpec(GroupsOf(ret[1]), ret[1].weights[1]))
        => /\ ret[1].sample # None
           /\ InUnit(ret[1].sample[1])
                => /\ ret[1].kind = "return"
                   /\ \E i \in 1..Len(GroupsOf(ret[1])) :
                         /\ ret[1].value = GroupsOf(ret[1])[i]
                         /\ FLessEq(Boundary(ret[1].weights[1], i - 1), ret[1].sample[1])
                         /\ FLess(ret[1].sample[1], Boundary(ret[1].weights[1], i))

\* Weights [0.5, 0.5] and a sample of exactly 0.5: the second group.
BoundaryWitness ==
    /\ ret # None
    /\ ret[1].groups = Some(<<"control", "test">>)
    /\ ret[1].weights = Some(<<f0_5, f0_5>>)
    /\ ret[1].sample = Some(f0_5)
    /\ ret[1].value = "test"

(***************************************************************************)
(* C6  (as claimed) Once the weights have passed the check, a sample in    *)
(* [0, 1) gets a label of the group list and nothing is raised.            *)
(***************************************************************************)
Totality ==
    (ret # None /\ ret[1].sample # None /\ InUnit(ret[1].sample[1]))
        => /\ ret[1].kind = "return"
           /\ \E i \in 1..Len(GroupsOf(ret[1])) : ret[1].value = GroupsOf(ret[1])[i]

(***************************************************************************)
(* C7  Defaults: without groups and weights the call does what the call    *)
(* with ['control', 'test'] and [0.5, 0.5] does; with n >= 1 groups and no *)
(* weights it does what the call with n weights 1/n does.                  *)
(***************************************************************************)
Defaults ==
    ret # None =>
        /\ (ret[1].groups = None /\ ret[1].weights = None)
              => SameOutcome(ret[1],
                     GetGroupCall(ret[1].salt, sha, ret[1].user_id,
                                  Some(<<"control", "test">>), Some(<<f0_5, f0_5>>)))
        /\ (ret[1].groups # None /\ ret[1].weights = None
               /\ Len(GroupsOf(ret[1])) >= 1)
              => SameOutcome(ret[1],
                     GetGroupCall(ret[1].salt, sha, ret[1].user_id, ret[1].groups,
                                  Some(EqualWeights(Len(GroupsOf(ret[1]))))))

\* Three groups, no weights, a sample in the last third.
DefaultsWitness ==
    /\ ret # None
    /\ ret[1].groups = Some(<<"a", "b", "c">>)
    /\ ret[1].weights = None
    /\ ret[1].value = "c"

(***************************************************************************)
(* C8  (as claimed) The sample is the digest prefix divided by 2^64 and    *)
(* lies in [0, 1), strictly below 1 for every prefix.                      *)
(***************************************************************************)
SampleBelowOne ==
    (ret # None /\ ret[1].sample # None)
        => /\ ret[1].sample[1] =
                from_bytes_div(sha[Combined(ret[1].salt, ret[1].user_id)])
           /\ InUnit(ret[1].sample[1])

(***************************************************************************)
(* C9  Bulk application: the caller's frame never gains a 'group' column;  *)
(* for a valid specification the returned frame has the caller's rows in   *)
(* their order, each with the group get_group gives its own identifier.    *)
(***************************************************************************)
BulkApplication ==
    /\ \A i \in 1..Len(df) : DOMAIN df[i] = {"user_id"}
    /\ out # None =>
          /\ df = out[1].input
          /\ (out[1].weights # None
                /\ ValidSpec(GroupsOf(out[1]), out[1].weights[1]))
                => /\ out[1].kind = "return"
                   /\ Len(out[1].value) = Len(out[1].input)
                   /\ \A i \in 1..Len(out[1].input) :
                         /\ out[1].value[i].user_id = out[1].input[i].user_id
                         /\ DOMAIN out[1].value[i] = {"user_id", "group"}
                         /\ SameOutcome(
                               [kind |-> "return", value |-> out[1].value[i].group],
                               GetGroupCall(out[1].salt, sha,
                                            out[1].input[i][out[1].user_col],
                                            out[1].groups, out[1].weights))

\* Two rows that got different groups.
BulkWitness ==
    /\ out # None
    /\ out[1].op = "assign_groups"
    /\ out[1].kind = "return"
    /\ out[1].weights # None
    /\ ValidSpec(GroupsOf(out[1]), out[1].weights[1])
    /\ Len(out[1].value) = 2
    /\ out[1].value[1].group # out[1].value[2].group

(***************************************************************************)
(* C10  (as claimed) With equal lengths, no negative weight and weights    *)
(* accepted by the check, a sample in [0, 1) never gets a group of weight  *)
(* 0.                                                                      *)
(***************************************************************************)
ZeroWeightNeverReturned ==
    (ret # None /\ ret[1].weights # None /\ ret[1].kind = "return"
        /\ Len(ret[1].weights[1]) = Len(GroupsOf(ret[1]))
        /\ (\A i \in 1..Len(ret[1].weights[1]) : ~ret[1].weights[1][i].neg)
        /\ InUnit(ret[1].sample[1]))
        => \A i \in 1..Len(GroupsOf(ret[1])) :
              ret[1].value = GroupsOf(ret[1])[i] => ret[1].weights[1][i] # FZero

=============================================================================
